---- MODULE Spec2Model ----
(***************************************************************************)
(* A model of satlas2/plotting.py: the triangular axes grid                *)
(* (_make_axes_grid), the chisquare/likelihood map (generateChisquareMap), *)
(* the posterior correlation plot (generateCorrelationPlot) and the walker *)
(* trace plot (generateWalkPlot).                                          *)
(*                                                                         *)
(* Conventions.  Real numbers are fixed-point integers in hundredths       *)
(* (100 is 1.0).  Python's None is the empty set where the other values    *)
(* are numbers ({} is None, {v} is the number v).  Strings are sequences   *)
(* of one-character strings, so that `in`, split and join are computed.    *)
(* Parameters objects live in a heap of object ids, so that the aliasing   *)
(* of  fitter.lmpars = params  and the copies of copy.deepcopy are kept    *)
(* apart.                                                                  *)
(***************************************************************************)
EXTENDS Integers, Sequences, FiniteSets, TLC

\* ------------------------------------------------------------------ bounds
\* Largest resolution_diag / resolution_map a call is made with.
MaxRes == 2
\* Largest no_variables _make_axes_grid is called with.
MaxVars == 5
\* Number of object ids of the heap of Parameters objects.
HeapSize == 6
\* Largest number of steps of a stored walk.
MaxSteps == 2

\* ----------------------------------------------------------------- strings
\* The separator of the hierarchical parameter names, '___'.
NameSep == <<"_", "_", "_">>

\* str.__contains__:  f in c.
Contains(f, c) ==
  \E k \in 0..(Len(c) - Len(f)) : SubSeq(c, k + 1, k + Len(f)) = f

\* The index of the first occurrence of sep in s at or after position from
\* (0 when there is none).
RECURSIVE FindFrom(_, _, _)
FindFrom(s, sep, from) ==
  IF from + Len(sep) - 1 > Len(s) THEN 0
  ELSE IF SubSeq(s, from, from + Len(sep) - 1) = sep THEN from
  ELSE FindFrom(s, sep, from + 1)

\* str.split(sep) for a non-empty separator.
RECURSIVE Split(_, _)
Split(s, sep) ==
  LET at == FindFrom(s, sep, 1) IN
  IF at = 0 THEN <<s>>
  ELSE <<SubSeq(s, 1, at - 1)>> \o Split(SubSeq(s, at + Len(sep), Len(s)), sep)

\* sep.join(parts).
RECURSIVE Join(_, _)
Join(sep, parts) ==
  IF Len(parts) = 0 THEN <<>>
  ELSE IF Len(parts) = 1 THEN parts[1]
  ELSE parts[1] \o sep \o Join(sep, Tail(parts))

\* list.index(x): the first position (1-based here) holding x, 0 for ValueError.
ListIndex(s, x) ==
  IF \E k \in 1..Len(s) : s[k] = x
  THEN CHOOSE k \in 1..Len(s) : s[k] = x /\ \A m \in 1..(k - 1) : s[m] # x
  ELSE 0

VARIABLES
  \* _make_axes_grid
  g_pc,            \* "idle", "cells", "finish", "done", "raised"
  no_variables,    \* the argument
  g_cbar,          \* the argument cbar
  g_i, g_j,        \* the loop indices i and j (0-based, as in the source)
  axes,            \* the n-by-n array: {} is None, {a} holds the axes record a
  cbar_axis,       \* the returned colorbar axes: {} is None
  \* the fitting engine (fitter) and the dictionary shared by the calls
  heap,            \* object id -> Parameters object (name index -> record)
  lmpars,          \* fitter.lmpars: an object id
  fitted,          \* fitter.chisqr exists: a fit has been run
  llh_result,      \* fitter.llh_result: {} is None, {"llh"} a value
  fitter_result,   \* fitter.result: the parameters of the last fit, by value
  fit_in_place,    \* the engine writes a fit into the object lmpars names
  fit_kws,         \* the keys of the default dictionary of line 125
  \* generateChisquareMap
  c_pc,            \* where the call is
  outcome,         \* how the last call ended: "none", "returned", "raised"
  method, filter, resolution_diag, resolution_map,  \* the arguments
  result,          \* the copy of fitter.result of line 164
  orig_params, saved_params, params,   \* object ids (0: unbound)
  param_names,     \* the swept parameters (indices into FitterParams)
  ranges,          \* name index -> [left_val, right_val]
  c_i, c_j,        \* diagonal: parameter and point; pair: pair and point
  bounds,          \* the boundaries given to contourf (line 293)
  \* history, for the properties
  entry_values,    \* the parameter values when the call was made
  baseline,        \* the Parameters snapshot of line 165, by value
  last_fit,        \* the options and the input of the last fit
  \* the stored walk (the h5 file read by SATLASHDFBackend)
  labels,          \* reader.labels: the stored parameter names
  chain,           \* reader.get_chain(flat=False): step -> walker -> column
  \* generateWalkPlot
  w_pc,            \* where the call is
  w_outcome,       \* "none", "returned", "raised"
  w_names,         \* var_names: the display label of every stored parameter
  w_filter,        \* filter after lines 491-494: the selected labels
  w_first, w_last, \* the selected steps
  w_axes,          \* what plt.subplots returned: "none", "axes", "array"
  w_i,             \* the loop index
  w_regions,       \* the trace regions drawn so far
  \* generateCorrelationPlot
  r_pc,            \* where the call is
  r_outcome,       \* "none", "returned", "raised"
  r_error,         \* the statement that raised
  r_names,         \* var_names
  r_filter,        \* filter after lines 353-356
  r_selected,      \* per entry of filter, the stored parameter it was taken from
  r_data,          \* data after line 351: the flattened samples, by column
  r_bins,          \* bins: per selected label, {} is None, {b} a number
  r_supplied,      \* bins as the caller supplied them
  r_axes,          \* the cells of the grid that hold an axes
  r_i,             \* the index of the diagonal or of the pair
  r_hists,         \* the histograms drawn on the diagonal
  metadata,        \* label -> [bins, min, max]
  r_contours       \* the contour plots drawn: thresholds and boundaries

gridVars == <<g_pc, no_variables, g_cbar, g_i, g_j, axes, cbar_axis>>

chiVars == <<heap, lmpars, fitted, llh_result, fitter_result, fit_in_place,
             fit_kws, c_pc, outcome, method, filter, resolution_diag,
             resolution_map, result, orig_params, saved_params, params,
             param_names, ranges, c_i, c_j, bounds, entry_values, baseline,
             last_fit>>

storeVars == <<labels, chain>>

walkVars == <<w_pc, w_outcome, w_names, w_filter, w_first, w_last, w_axes,
              w_i, w_regions>>

corrVars == <<r_pc, r_outcome, r_error, r_names, r_filter, r_selected, r_data, r_bins,
              r_supplied, r_axes, r_i, r_hists, metadata, r_contours>>

vars == <<gridVars, chiVars, storeVars, walkVars, corrVars>>

\* What the actions of one function leave alone: the state of the others.
notGrid == <<chiVars, storeVars, walkVars, corrVars>>
notChi == <<gridVars, storeVars, walkVars, corrVars>>
notWalk == <<gridVars, chiVars, storeVars, corrVars>>
notCorr == <<gridVars, chiVars, storeVars, walkVars>>

\* ---------------------------------------------------------- _make_axes_grid
Cells(n) == (0..(n - 1)) \X (0..(n - 1))

\* Line 77, with I the reversed row index of line 74: the cell is created.
CellCreatedOffByOne(n, i, j) == ((n - 1) - i) + j <= n

CellCreated(n, i, j) == ((n - 1) - i) + j < n

\* A numpy index: a negative index counts from the end.
NpIndex(k, n) == IF k < 0 THEN k + n ELSE k

\* Lines 78-95: the axes made for cell (i, j), given the array so far.
NewAxes(ax, n, i, j) ==
  [sharex |-> IF i # j /\ ax[<<j, j>>] # {} THEN {<<j, j>>} ELSE {},
   sharey |-> IF i # j /\ i - 1 # j /\ ax[<<i, NpIndex(i - 1, n)>>] # {}
              THEN {<<i, NpIndex(i - 1, n)>>} ELSE {},
   at |-> <<i, j>>,
   tick_right |-> FALSE,
   xticklabels |-> TRUE,
   yticklabels |-> TRUE]

\* Lines 29-72: the call and the pre-allocated array of None.
GridCall ==
  /\ UNCHANGED notGrid
  /\ g_pc = "idle"
  /\ \E n \in 1..MaxVars, c \in BOOLEAN :
       /\ no_variables' = n
       /\ g_cbar' = c
       /\ axes' = [c2 \in Cells(n) |-> {}]
       /\ g_i' = 0
       /\ g_j' = n - 1
  /\ g_pc' = "cells"
  /\ cbar_axis' = {}

\* Lines 74-101: one pass of the inner loop body, for cell (g_i, g_j).
GridCell ==
  /\ UNCHANGED notGrid
  /\ g_pc = "cells"
  /\ LET n == no_variables
         i == g_i
         j == g_j
         a == IF CellCreated(n, i, j) THEN {NewAxes(axes, n, i, j)} ELSE {}
         \* lines 98-100: a.yaxis.tick_right() on the diagonal
         b == IF i = j THEN {[x EXCEPT !.tick_right = TRUE] : x \in a} ELSE a
         last == (i = n - 1 /\ j = 0)
     IN IF i = j /\ a = {}
        THEN \* AttributeError: None has no yaxis
             /\ g_pc' = "raised"
             /\ UNCHANGED <<axes, g_i, g_j>>
        ELSE /\ axes' = [axes EXCEPT ![<<i, j>>] = b]
             /\ g_pc' = IF last THEN "finish" ELSE "cells"
             /\ g_j' = IF last THEN j ELSE IF j = 0 THEN n - 1 ELSE j - 1
             /\ g_i' = IF last THEN i ELSE IF j = 0 THEN i + 1 ELSE i
  /\ UNCHANGED <<no_variables, g_cbar, cbar_axis>>

\* Lines 103-123: the tick labels are hidden off the bottom row and off the
\* left column, and the colorbar axes is made when asked for.
GridFinish ==
  /\ UNCHANGED notGrid
  /\ g_pc = "finish"
  /\ axes' = [c \in Cells(no_variables) |->
                {[x EXCEPT !.xticklabels = (c[1] = no_variables - 1),
                           !.yticklabels = (c[2] = 0)] : x \in axes[c]}]
  /\ cbar_axis' = IF g_cbar THEN {"cbar"} ELSE {}
  /\ g_pc' = "done"
  /\ UNCHANGED <<no_variables, g_cbar, g_i, g_j>>

GridInit ==
  /\ g_pc = "idle"
  /\ no_variables = 0
  /\ g_cbar = FALSE
  /\ g_i = 0
  /\ g_j = 0
  /\ axes = [c \in {} |-> {}]
  /\ cbar_axis = {}


\* ------------------------------------------------------- the fitting engine
\* 'source___model___variable'
MkName(source, model, variable) ==
  source \o NameSep \o model \o NameSep \o variable

\* The keys of fitter.lmpars, in the order the Parameters object iterates.
FitterParams == << MkName(<<"s">>, <<"m">>, <<"a">>),
                   MkName(<<"s">>, <<"m">>, <<"b">>) >>

P == 1..Len(FitterParams)
ObjIds == 1..HeapSize

\* Values a parameter starts with and values a fit leaves (hundredths).
InitValues == {0, 100}
FitValues == {0, 200}
\* Standard errors: None, zero, 0.1.
InitStderrs == {{}, {0}, {10}}
FitStderrs == {{}, {10}}

ParamRecords == [value : InitValues, vary : BOOLEAN, stderr : InitStderrs]

\* The content of an object id no variable names.
DeadObj == [p \in P |-> [value |-> 0, vary |-> FALSE, stderr |-> {}]]

\* The lowest object id not in use.
Alloc(used) == CHOOSE id \in ObjIds \ used : \A o \in ObjIds \ used : id <= o

\* The heap with every object no root names dropped.
Collect(h, roots) == [id \in ObjIds |-> IF id \in roots THEN h[id] ELSE DeadObj]

\* Object ids are names only: the heap with the one object `lm` that is
\* still named, under id 1.
Compact(h, lm) == [id \in ObjIds |-> IF id = 1 THEN h[lm] ELSE DeadObj]

\* What a fit may leave in the Parameters it is given: every varying
\* parameter re-estimated (value and standard error, the errors estimated for
\* all of them or for none), every fixed parameter as it was.
FitOutcomes(obj) ==
  { [p \in P |-> IF obj[p].vary
                 THEN [value |-> vals[p], vary |-> TRUE, stderr |-> e]
                 ELSE obj[p]] : vals \in [P -> FitValues], e \in FitStderrs }

\* fitter.fit(...): the heap and fitter.lmpars after a fit that leaves `out`.
\* The engine either writes into the object fitter.lmpars names or binds
\* fitter.lmpars to a new object holding the fitted parameters.
FitHeap(h, lm, out, used) ==
  IF fit_in_place THEN [h EXCEPT ![lm] = out]
  ELSE [h EXCEPT ![Alloc(used)] = out]

FitLmpars(lm, used) == IF fit_in_place THEN lm ELSE Alloc(used)

\* fitter.updateInfo() after  fitter.result = res : the object fitter.lmpars
\* names afterwards.  The engine leaves fitter.lmpars alone, or binds it to
\* the parameters of the result (a new object).
UpdateInfo(h, lm, res, rebind, fresh) ==
  IF rebind THEN [heap |-> [h EXCEPT ![fresh] = res], ref |-> fresh]
  ELSE [heap |-> h, ref |-> lm]

\* The options a fit is given: llh_selected is passed when the dictionary
\* holds it.
LlhSelected(kws) == "llh_selected" \in kws

\* --------------------------------------------------- generateChisquareMap
Methods == {<<"c", "h", "i", "s", "q", "u", "a", "r", "e">>, <<"l", "l", "h">>}

\* str.startswith
StartsWith(s, prefix) ==
  Len(s) >= Len(prefix) /\ SubSeq(s, 1, Len(prefix)) = prefix

\* The filters a call is made with: None ({}), or a list of strings.
ChiFilters == { {}, {<< <<"a">> >>}, {<< <<"m">>, <<"b">> >>} }

\* Line 172: any([f in p for f in filter]).
MatchesFilter(flt, name) ==
  flt = {} \/ \E fl \in flt : \E k \in 1..Len(fl) : Contains(fl[k], name)

\* Lines 169-174: the names of the varying parameters the filter keeps.
ParamNames(obj, flt) ==
  LET keep(p) == obj[p].vary /\ MatchesFilter(flt, FitterParams[p])
      RECURSIVE walk(_)
      walk(p) == IF p > Len(FitterParams) THEN <<>>
                 ELSE (IF keep(p) THEN <<p>> ELSE <<>>) \o walk(p + 1)
  IN walk(1)

\* np.abs
Abs(x) == IF x < 0 THEN -x ELSE x

SweepStderr(par) ==
  LET s1 == IF par.stderr # {} THEN CHOOSE e \in par.stderr : TRUE
            ELSE Abs(par.value) \div 100
  IN IF s1 # 0 THEN s1 ELSE Abs(par.value) \div 100

\* Lines 213-218: left_val = 3*left - 2*value, right_val = 3*right - 2*value.
SweepRange(par) ==
  LET stderr == SweepStderr(par)
      right == par.value + stderr
      left == par.value - stderr
  IN [left_val |-> 3 * left - 2 * par.value,
      right_val |-> 3 * right - 2 * par.value]

\* np.linspace(lo, hi, num)[k], k from 0.
Linspace(lo, hi, num, k) ==
  IF num = 1 THEN lo ELSE lo + (k * (hi - lo)) \div (num - 1)

\* np.tril_indices_from(axes, -1): the pairs (i, j), j < i, row by row
\* (0-based).
TrilIndices(n) ==
  LET RECURSIVE rows(_, _)
      rows(i, j) == IF i >= n THEN <<>>
                    ELSE IF j >= i THEN rows(i + 1, 0)
                    ELSE << <<i, j>> >> \o rows(i, j + 1)
  IN rows(1, 0)

\* The root of chi2.cdf(x, df) - level found by optimize.root (hundredths):
\* level 1, 2, 3 is the probability of 1, 2, 3 sigma.
Chi2Quantile(df, level) ==
  IF df = 1 THEN << 100, 400, 900 >>[level]
  ELSE << 230, 618, 1183 >>[level]

\* Line 290: the degrees of freedom chi2.cdf is called with.
ContourDof == 1

\* Lines 288-293: the boundaries of the contour levels.
ContourBounds ==
  << -Chi2Quantile(ContourDof, 3), -Chi2Quantile(ContourDof, 2),
     -Chi2Quantile(ContourDof, 1), 0 >>

\* copy.deepcopy(h[src]) bound to the new object id `fresh`.
DeepCopy(h, src, fresh) == [heap |-> [h EXCEPT ![fresh] = h[src]], ref |-> fresh]

\* A plain assignment: the same object under another name.
AliasCopy(h, src, fresh) == [heap |-> h, ref |-> src]

\* Line 165: orig_params = copy.deepcopy(fitter.lmpars).
OrigParamsCopy(h, src, fresh) == DeepCopy(h, src, fresh)

\* Line 192: saved_params = copy.deepcopy(fitter.lmpars).
SavedParamsCopy(h, src, fresh) == DeepCopy(h, src, fresh)

\* Line 194: params = copy.deepcopy(saved_params).
DiagParamsCopy(h, src, fresh) == DeepCopy(h, src, fresh)

\* Line 253: params = copy.deepcopy(orig_params).
PairParamsCopy(h, src, fresh) == DeepCopy(h, src, fresh)

\* Line 296: fitter.lmpars = copy.deepcopy(orig_params).
PairRestoreCopy(h, src, fresh) == DeepCopy(h, src, fresh)

\* Line 250: fitter.lmpars = orig_params.
DiagRestore(lm, orig) == orig

Values(obj) == [p \in P |-> obj[p].value]

NoFit == [kind |-> "none", first |-> FALSE, llh |-> FALSE,
          deviance |-> "none", input |-> DeadObj, output |-> DeadObj,
          swept |-> {}, method |-> <<>>]

\* The record of a fit: where it was issued, whether it was the first of its
\* sweep, the option it was given, the deviance read after it (lines 227-230),
\* the Parameters it started from and left, and the parameters being swept.
FitRecord(kind, first, kws, input, out, swept, meth) ==
  [kind |-> kind, first |-> first, llh |-> LlhSelected(kws),
   deviance |-> IF LlhSelected(kws) THEN "llh" ELSE "chisqr",
   input |-> input, output |-> out, swept |-> swept, method |-> meth]

Locals == <<method, filter, resolution_diag, resolution_map, result,
            orig_params, saved_params, params, param_names, ranges, c_i, c_j>>

\* The locals of a call that has ended.
ClearLocals ==
  /\ method' = <<>>
  /\ filter' = {}
  /\ resolution_diag' = 0
  /\ resolution_map' = 0
  /\ result' = DeadObj
  /\ orig_params' = 0
  /\ saved_params' = 0
  /\ params' = 0
  /\ param_names' = <<>>
  /\ ranges' = [p \in {} |-> 0]
  /\ c_i' = 0
  /\ c_j' = 0

\* Line 125: a call, with fit_kws left at its default.
ChiCall ==
  /\ UNCHANGED notChi
  /\ c_pc = "idle"
  /\ \E m \in Methods, f \in ChiFilters, rd \in 1..MaxRes, rm \in 1..MaxRes :
       /\ method' = m
       /\ filter' = f
       /\ resolution_diag' = rd
       /\ resolution_map' = rm
  /\ outcome' = "none"
  /\ entry_values' = Values(heap[lmpars])
  /\ c_pc' = IF fitted THEN "snapshot" ELSE "initial_fit"
  /\ last_fit' = NoFit
  /\ bounds' = <<>>
  /\ UNCHANGED <<heap, lmpars, fitted, llh_result, fitter_result,
                 fit_in_place, fit_kws, result, orig_params, saved_params,
                 params, param_names, ranges, c_i, c_j, baseline>>

\* Lines 159-160: there is no fitter.chisqr, so fitter.fit(**fit_kws) is run.
ChiInitialFit ==
  /\ UNCHANGED notChi
  /\ c_pc = "initial_fit"
  /\ \E out \in FitOutcomes(heap[lmpars]) :
       LET lm == FitLmpars(lmpars, {lmpars})
       IN /\ lmpars' = 1
          /\ heap' = Compact(FitHeap(heap, lmpars, out, {lmpars}), lm)
          /\ fitter_result' = out
          /\ last_fit' = FitRecord("initial", FALSE, fit_kws, heap[lmpars],
                                   out, {}, method)
  /\ llh_result' = IF LlhSelected(fit_kws) THEN {"llh"} ELSE {}
  /\ fitted' = TRUE
  /\ c_pc' = "snapshot"
  /\ UNCHANGED <<fit_in_place, fit_kws, outcome, bounds, entry_values,
                 baseline>>
  /\ UNCHANGED Locals

\* Lines 162-192: the snapshots, the swept names, the axes grid.  With no
\* swept parameter _make_axes_grid divides by zero (line 59) and the call
\* raises.
ChiSnapshot ==
  /\ UNCHANGED notChi
  /\ c_pc = "snapshot"
  /\ LET names == ParamNames(heap[lmpars], filter)
         o == OrigParamsCopy(heap, lmpars, Alloc({lmpars}))
         s == SavedParamsCopy(o.heap, lmpars, Alloc({lmpars, o.ref}))
     IN IF names = <<>>
        THEN /\ c_pc' = "idle"
             /\ outcome' = "raised"
             /\ ClearLocals
             /\ UNCHANGED <<heap, baseline>>
        ELSE /\ c_pc' = "diag_begin"
             /\ outcome' = outcome
             /\ result' = fitter_result
             /\ orig_params' = o.ref
             /\ saved_params' = s.ref
             /\ heap' = s.heap
             /\ baseline' = heap[lmpars]
             /\ param_names' = names
             /\ ranges' = [p \in {} |-> 0]
             /\ c_i' = 0
             /\ c_j' = 0
             /\ UNCHANGED <<method, filter, resolution_diag, resolution_map,
                            params>>
  /\ UNCHANGED <<lmpars, fitted, llh_result, fitter_result, fit_in_place,
                 fit_kws, bounds, entry_values, last_fit>>

\* Lines 194-220: a diagonal sweep begins: the working copy, the option
\* llh_selected (set on the last diagonal of a call whose method is not
\* chisquare), the swept range, the swept parameter fixed.
ChiDiagBegin ==
  /\ UNCHANGED notChi
  /\ c_pc = "diag_begin"
  /\ LET n == Len(param_names)
         name == param_names[c_i + 1]
         cp == DiagParamsCopy(heap, saved_params,
                              Alloc({lmpars, orig_params, saved_params, params}))
         h1 == [cp.heap EXCEPT ![cp.ref][name].vary = FALSE]
     IN /\ params' = cp.ref
        /\ heap' = Collect(h1, {lmpars, orig_params, saved_params, cp.ref})
        /\ fit_kws' = IF c_i = n - 1
                         /\ ~StartsWith(method, <<"c", "h", "i", "s", "q", "u", "a", "r", "e">>)
                      THEN fit_kws \cup {"llh_selected"} ELSE fit_kws
        /\ ranges' = (name :> SweepRange(heap[orig_params][name])) @@ ranges
  /\ c_j' = 0
  /\ c_pc' = "diag_point"
  /\ UNCHANGED <<lmpars, fitted, llh_result, fitter_result, fit_in_place,
                 outcome, method, filter, resolution_diag,
                 resolution_map, result, orig_params, saved_params,
                 param_names, c_i, bounds, entry_values, baseline, last_fit>>

\* Lines 223-230: one point of a diagonal sweep: the value is set, the
\* working copy becomes fitter.lmpars, the rest is refitted.
ChiDiagPoint ==
  /\ UNCHANGED notChi
  /\ c_pc = "diag_point"
  /\ LET name == param_names[c_i + 1]
         v == Linspace(ranges[name].left_val, ranges[name].right_val,
                       resolution_diag, c_j)
         h1 == [heap EXCEPT ![params][name].value = v]
         used == {orig_params, saved_params, params}
         lm == FitLmpars(params, used)
     IN /\ \E out \in FitOutcomes(h1[params]) :
             /\ heap' = Collect(FitHeap(h1, params, out, used), used \cup {lm})
             /\ fitter_result' = out
             /\ last_fit' = FitRecord("diag", c_j = 0, fit_kws, h1[params],
                                      out, {name}, method)
        /\ lmpars' = lm
  /\ llh_result' = IF LlhSelected(fit_kws) THEN {"llh"} ELSE {}
  /\ c_j' = c_j + 1
  /\ c_pc' = IF c_j + 1 = resolution_diag THEN "diag_end" ELSE "diag_point"
  /\ UNCHANGED <<fitted, fit_in_place, fit_kws, outcome, method, filter,
                 resolution_diag, resolution_map, result, orig_params,
                 saved_params, params, param_names, ranges, c_i, bounds,
                 entry_values, baseline>>

\* Lines 233-250: the sweep is plotted and fitter.lmpars is set back.
ChiDiagEnd ==
  /\ UNCHANGED notChi
  /\ c_pc = "diag_end"
  /\ LET n == Len(param_names)
         lm == DiagRestore(lmpars, orig_params)
     IN /\ lmpars' = lm
        /\ heap' = Collect(heap, {lm, orig_params, saved_params, params})
        /\ c_i' = IF c_i + 1 < n THEN c_i + 1 ELSE 0
        /\ c_pc' = IF c_i + 1 < n THEN "diag_begin"
                   ELSE IF TrilIndices(n) # <<>> THEN "pair_begin"
                   ELSE "return"
  /\ c_j' = 0
  /\ UNCHANGED <<fitted, llh_result, fitter_result, fit_in_place, fit_kws,
                 outcome, method, filter, resolution_diag,
                 resolution_map, result, orig_params, saved_params, params,
                 param_names, ranges, bounds, entry_values, baseline, last_fit>>

\* Lines 253-273: a pair sweep begins: the working copy, both parameters
\* fixed.
ChiPairBegin ==
  /\ UNCHANGED notChi
  /\ c_pc = "pair_begin"
  /\ LET pair == TrilIndices(Len(param_names))[c_i + 1]
         y_name == param_names[pair[1] + 1]
         x_name == param_names[pair[2] + 1]
         cp == PairParamsCopy(heap, orig_params,
                              Alloc({lmpars, orig_params, saved_params, params}))
         h1 == [cp.heap EXCEPT ![cp.ref][y_name].vary = FALSE,
                               ![cp.ref][x_name].vary = FALSE]
     IN /\ params' = cp.ref
        /\ heap' = Collect(h1, {lmpars, orig_params, saved_params, cp.ref})
  /\ c_j' = 0
  /\ c_pc' = "pair_point"
  /\ UNCHANGED <<lmpars, fitted, llh_result, fitter_result, fit_in_place,
                 fit_kws, outcome, method, filter, resolution_diag,
                 resolution_map, result, orig_params, saved_params,
                 param_names, ranges, c_i, bounds, entry_values, baseline,
                 last_fit>>

\* Lines 275-285: one point (k, l) of the grid of a pair: X[k, l] is
\* x_range[l] and Y[k, l] is y_range[k].
ChiPairPoint ==
  /\ UNCHANGED notChi
  /\ c_pc = "pair_point"
  /\ LET pair == TrilIndices(Len(param_names))[c_i + 1]
         y_name == param_names[pair[1] + 1]
         x_name == param_names[pair[2] + 1]
         k == c_j \div resolution_map
         l == c_j % resolution_map
         x == Linspace(ranges[x_name].left_val, ranges[x_name].right_val,
                       resolution_map, l)
         y == Linspace(ranges[y_name].left_val, ranges[y_name].right_val,
                       resolution_map, k)
         h1 == [heap EXCEPT ![params][x_name].value = x,
                            ![params][y_name].value = y]
         used == {orig_params, saved_params, params}
         lm == FitLmpars(params, used)
     IN /\ \E out \in FitOutcomes(h1[params]) :
             /\ heap' = Collect(FitHeap(h1, params, out, used), used \cup {lm})
             /\ fitter_result' = out
             /\ last_fit' = FitRecord("pair", c_j = 0, fit_kws, h1[params],
                                      out, {x_name, y_name}, method)
        /\ lmpars' = lm
  /\ llh_result' = IF LlhSelected(fit_kws) THEN {"llh"} ELSE {}
  /\ c_j' = c_j + 1
  /\ c_pc' = IF c_j + 1 = resolution_map * resolution_map THEN "pair_end"
             ELSE "pair_point"
  /\ UNCHANGED <<fitted, fit_in_place, fit_kws, outcome, method, filter,
                 resolution_diag, resolution_map, result, orig_params,
                 saved_params, params, param_names, ranges, c_i, bounds,
                 entry_values, baseline>>

\* Lines 287-296: the contour boundaries, the contour plot, and
\* fitter.lmpars set back to a copy of orig_params.
ChiPairEnd ==
  /\ UNCHANGED notChi
  /\ c_pc = "pair_end"
  /\ LET npairs == Len(TrilIndices(Len(param_names)))
         cp == PairRestoreCopy(heap, orig_params,
                               Alloc({lmpars, orig_params, saved_params, params}))
     IN /\ lmpars' = cp.ref
        /\ heap' = Collect(cp.heap, {cp.ref, orig_params, saved_params, params})
        /\ c_i' = IF c_i + 1 < npairs THEN c_i + 1 ELSE 0
        /\ c_pc' = IF c_i + 1 < npairs THEN "pair_begin" ELSE "return"
  /\ bounds' = ContourBounds
  /\ c_j' = 0
  /\ UNCHANGED <<fitted, llh_result, fitter_result, fit_in_place, fit_kws,
                 outcome, method, filter, resolution_diag,
                 resolution_map, result, orig_params, saved_params, params,
                 param_names, ranges, entry_values, baseline, last_fit>>

\* Lines 297-311: the colorbar, then  fitter.result = result  and
\* fitter.updateInfo(), which brings the engine's derived state back in line
\* with the restored result: it leaves fitter.lmpars alone or binds it to the
\* parameters of that result.
ChiReturn ==
  /\ UNCHANGED notChi
  /\ c_pc = "return"
  /\ fitter_result' = result
  /\ \E rebind \in BOOLEAN :
       LET u == UpdateInfo(heap, lmpars, result, rebind, Alloc({lmpars}))
       IN /\ lmpars' = 1
          /\ heap' = Compact(u.heap, u.ref)
  /\ outcome' = "returned"
  /\ c_pc' = "idle"
  /\ ClearLocals
  /\ UNCHANGED <<fitted, llh_result, fit_in_place, fit_kws, bounds,
                 entry_values, baseline, last_fit>>

\* The fitter before the first call: its parameters, whether it has been
\* fitted (then fitter.result holds the parameters of that fit).
ChiInit ==
  /\ \E obj \in [P -> ParamRecords] :
       /\ heap = [id \in ObjIds |-> IF id = 1 THEN obj ELSE DeadObj]
       /\ \E f \in BOOLEAN :
            /\ fitted = f
            /\ fitter_result = IF f THEN obj ELSE DeadObj
  /\ lmpars = 1
  /\ llh_result = {}
  /\ fit_in_place \in BOOLEAN
  /\ fit_kws = {}
  /\ c_pc = "idle"
  /\ outcome = "none"
  /\ method = <<>>
  /\ filter = {}
  /\ resolution_diag = 0
  /\ resolution_map = 0
  /\ result = DeadObj
  /\ orig_params = 0
  /\ saved_params = 0
  /\ params = 0
  /\ param_names = <<>>
  /\ ranges = [p \in {} |-> 0]
  /\ c_i = 0
  /\ c_j = 0
  /\ bounds = <<>>
  /\ entry_values = [p \in P |-> 0]
  /\ baseline = DeadObj
  /\ last_fit = NoFit

\* The fitter and the chisquare map at rest, for the specifications of the
\* other functions.
ChiParked ==
  /\ heap = [id \in ObjIds |-> DeadObj]
  /\ lmpars = 1
  /\ fitted = FALSE
  /\ fitter_result = DeadObj
  /\ llh_result = {}
  /\ fit_in_place = FALSE
  /\ fit_kws = {}
  /\ c_pc = "parked"
  /\ outcome = "none"
  /\ method = <<>>
  /\ filter = {}
  /\ resolution_diag = 0
  /\ resolution_map = 0
  /\ result = DeadObj
  /\ orig_params = 0
  /\ saved_params = 0
  /\ params = 0
  /\ param_names = <<>>
  /\ ranges = [p \in {} |-> 0]
  /\ c_i = 0
  /\ c_j = 0
  /\ bounds = <<>>
  /\ entry_values = [p \in P |-> 0]
  /\ baseline = DeadObj
  /\ last_fit = NoFit

GridParked ==
  /\ g_pc = "parked"
  /\ no_variables = 0
  /\ g_cbar = FALSE
  /\ g_i = 0
  /\ g_j = 0
  /\ axes = [c \in {} |-> {}]
  /\ cbar_axis = {}

\* ------------------------------------------------------------ the stored walk
\* The walkers of the stored chain.
Walkers == {1, 2}
NumWalkers == Cardinality(Walkers)

\* The lists of stored parameter names (reader.labels) a file may hold.
StoredLabelLists ==
  { << MkName(<<"s">>, <<"m">>, <<"a">>) >>,
    << MkName(<<"s">>, <<"m">>, <<"a">>), MkName(<<"s">>, <<"m">>, <<"b">>) >>,
    << MkName(<<"s">>, <<"m">>, <<"a">>), MkName(<<"s">>, <<"n">>, <<"a">>) >> }

\* The samples are 0 or 1.  A column of the chain is given by a seed <<t, r>>:
\* in the order of the flattened chain (step by step, walker by walker) its
\* first t samples are r and the others 1 - r.
Sample(seed, n) == IF n <= seed[1] THEN seed[2] ELSE 1 - seed[2]

StoreInit ==
  \E lab \in StoredLabelLists, steps \in 1..MaxSteps :
    \E seed \in [1..Len(lab) -> (0..(steps * NumWalkers - 1)) \X {0, 1}] :
      /\ labels = lab
      /\ chain = [s \in 1..steps |-> [w \in Walkers |-> [c \in 1..Len(lab) |->
                    Sample(seed[c], (s - 1) * NumWalkers + w)]]]

\* Lines 335-345 and 473-483: the display label of every stored parameter,
\* ' '.join of the source (followed by a newline in generateCorrelationPlot),
\* the model and the variable name, as the flags ask.
DisplayNames(lab, model, source, newline) ==
  LET split_names == [k \in 1..Len(lab) |-> Split(lab[k], NameSep)]
      parts(k) ==
        (IF source
         THEN << split_names[k][1] \o (IF newline THEN <<"\n">> ELSE <<>>) >>
         ELSE <<>>)
        \o (IF model THEN << split_names[k][2] >> ELSE <<>>)
        \o << split_names[k][3] >>
  IN [k \in 1..Len(lab) |-> Join(<<" ">>, parts(k))]

\* [c for c in var_names if f in c]
RECURSIVE LabelsHolding(_, _)
LabelsHolding(f, names) ==
  IF names = <<>> THEN <<>>
  ELSE (IF Contains(f, Head(names)) THEN <<Head(names)>> ELSE <<>>)
       \o LabelsHolding(f, Tail(names))

\* Lines 353-356 and 491-494: [c for f in filter for c in var_names if f in c],
\* or var_names when there is no filter.
RECURSIVE SelectLabels(_, _)
SelectLabels(flt, names) ==
  IF flt = <<>> THEN <<>>
  ELSE LabelsHolding(Head(flt), names) \o SelectLabels(Tail(flt), names)

\* [k for k, c in enumerate(var_names) if f in c], from position k on: the
\* stored parameters (from 1) the labels of LabelsHolding belong to.
RECURSIVE ParamsHolding(_, _, _)
ParamsHolding(f, names, k) ==
  IF k > Len(names) THEN <<>>
  ELSE (IF Contains(f, names[k]) THEN <<k>> ELSE <<>>)
       \o ParamsHolding(f, names, k + 1)

\* Lines 353-356: the stored parameter every entry of the new filter was
\* taken from, entry by entry.
RECURSIVE SelectParams(_, _)
SelectParams(flt, names) ==
  IF flt = <<>> THEN <<>>
  ELSE ParamsHolding(Head(flt), names, 1) \o SelectParams(Tail(flt), names)

FilterParams(flt, names) ==
  IF flt = {} THEN [k \in 1..Len(names) |-> k]
  ELSE SelectParams(CHOOSE fl \in flt : TRUE, names)

FilterLabels(flt, names) ==
  IF flt = {} THEN names
  ELSE SelectLabels(CHOOSE fl \in flt : TRUE, names)

\* The filters a plot is asked for: None ({}), or a list of strings.
PlotFilters == { {}, {<< <<"a">> >>}, {<< <<"a">>, <<"m">> >>}, {<< <<"b">> >>} }

\* The selections (percentages of the steps) a plot is asked for.
Selections == { <<0, 100>>, <<50, 100>> }

CeilDiv(a, b) == (a + b - 1) \div b

\* Lines 349 and 487: first = floor(length/100*selection[0]),
\* last = ceil(length/100*selection[1]), in exact arithmetic.
FirstStep(length, selection) == (length * selection[1]) \div 100
LastStep(length, selection) == CeilDiv(length * selection[2], 100)

\* data[first:last, :, i].flatten(): the samples of column i, step by step
\* and walker by walker (steps are numbered from 0 in the source).
Column(ch, first, last, i) ==
  [n \in 1..((last - first) * NumWalkers) |->
     ch[first + 1 + ((n - 1) \div NumWalkers)][1 + ((n - 1) % NumWalkers)][i]]

\* The number of samples of xs that are smaller than v, and equal to it.
CountLess(xs, v) == Cardinality({n \in 1..Len(xs) : xs[n] < v})
CountEq(xs, v) == Cardinality({n \in 1..Len(xs) : xs[n] = v})

\* np.sort(xs)[k], k from 1.
OrderStat(xs, k) ==
  CHOOSE v \in {xs[n] : n \in 1..Len(xs)} :
    CountLess(xs, v) < k /\ k <= CountLess(xs, v) + CountEq(xs, v)

\* Twice np.percentile(xs, 50): the middle sample counted twice, or the sum
\* of the two middle samples.
Median2(xs) ==
  LET n == Len(xs)
  IN IF n % 2 = 1 THEN 2 * OrderStat(xs, (n + 1) \div 2)
     ELSE OrderStat(xs, n \div 2) + OrderStat(xs, n \div 2 + 1)

\* --------------------------------------------------------- generateWalkPlot
\* Lines 455-494: the call, the labels, the selected steps and labels.
WalkCall ==
  /\ UNCHANGED notWalk
  /\ w_pc = "idle"
  /\ \E model \in BOOLEAN, source \in BOOLEAN, flt \in PlotFilters,
        selection \in Selections :
       LET names == DisplayNames(labels, model, source, FALSE)
       IN /\ w_names' = names
          /\ w_filter' = FilterLabels(flt, names)
          /\ w_first' = FirstStep(Len(chain), selection)
          /\ w_last' = LastStep(Len(chain), selection)
  /\ w_pc' = "subplots"
  /\ UNCHANGED <<w_outcome, w_axes, w_i, w_regions>>

\* Lines 496-498: plt.subplots(len(filter), 1, sharex=True) raises for no row,
\* returns one Axes for one row and an array of Axes for more; zip(filter,
\* axes) then iterates over axes, which raises TypeError for one Axes.
SubplotsResult(nrows) ==
  IF nrows = 0 THEN "error" ELSE IF nrows = 1 THEN "axes" ELSE "array"

WalkSubplots ==
  /\ UNCHANGED notWalk
  /\ w_pc = "subplots"
  /\ LET got == SubplotsResult(Len(w_filter))
     IN /\ w_axes' = got
        /\ IF got = "array"
           THEN /\ w_pc' = "trace"
                /\ w_outcome' = w_outcome
           ELSE /\ w_pc' = "done"
                /\ w_outcome' = "raised"
  /\ UNCHANGED <<w_names, w_filter, w_first, w_last, w_i, w_regions>>

\* Lines 498-505: the trace of one selected label: the column the label is
\* first found at, a line for every walker, the median line.
WalkTrace ==
  /\ UNCHANGED notWalk
  /\ w_pc = "trace"
  /\ w_i < Len(w_filter)
  /\ LET val == w_filter[w_i + 1]
         i == ListIndex(w_names, val)
         x == Column(chain, w_first, w_last, i)
     IN w_regions' = Append(w_regions,
          [label |-> val, column |-> i, trajectories |-> NumWalkers,
           steps |-> <<w_first, w_last>>, medians |-> 1, q50x2 |-> Median2(x)])
  /\ w_i' = w_i + 1
  /\ UNCHANGED <<w_pc, w_outcome, w_names, w_filter, w_first, w_last, w_axes>>

\* Lines 506-509: the loop is over, the figure is returned.
WalkReturn ==
  /\ UNCHANGED notWalk
  /\ w_pc = "trace"
  /\ w_i = Len(w_filter)
  /\ w_pc' = "done"
  /\ w_outcome' = "returned"
  /\ UNCHANGED <<w_names, w_filter, w_first, w_last, w_axes, w_i, w_regions>>

WalkInit ==
  /\ w_pc = "idle"
  /\ w_outcome = "none"
  /\ w_names = <<>>
  /\ w_filter = <<>>
  /\ w_first = 0
  /\ w_last = 0
  /\ w_axes = "none"
  /\ w_i = 0
  /\ w_regions = <<>>

WalkParked ==
  /\ w_pc = "parked"
  /\ w_outcome = "none"
  /\ w_names = <<>>
  /\ w_filter = <<>>
  /\ w_first = 0
  /\ w_last = 0
  /\ w_axes = "none"
  /\ w_i = 0
  /\ w_regions = <<>>

StoreParked ==
  /\ labels = <<>>
  /\ chain = <<>>

\* -------------------------------------------------- generateCorrelationPlot
\* The bins argument: None ({}), a number ({b}), or a list of such entries.
BinsArgs ==
  { [list |-> FALSE, entry |-> {}, entries |-> <<>>],
    [list |-> FALSE, entry |-> {1}, entries |-> <<>>],
    [list |-> FALSE, entry |-> {2}, entries |-> <<>>],
    [list |-> TRUE, entry |-> {}, entries |-> << {}, {2} >>] }

\* Lines 361-362: bins itself when it is a list, [bins for _ in filter]
\* otherwise.
BinsList(arg, flt) ==
  IF arg.list THEN arg.entries ELSE [k \in 1..Len(flt) |-> arg.entry]

SetMax(S) == CHOOSE v \in S : \A o \in S : o <= v
SetMin(S) == CHOOSE v \in S : \A o \in S : v <= o

SeqMax(xs) == SetMax({xs[n] : n \in 1..Len(xs)})
SeqMin(xs) == SetMin({xs[n] : n \in 1..Len(xs)})

RECURSIVE SeqSum(_)
SeqSum(xs) == IF xs = <<>> THEN 0 ELSE Head(xs) + SeqSum(Tail(xs))

\* x.size**2 * np.var(x) = N * sum(x*x) - sum(x)**2.
SumSquaredDev(xs) ==
  Len(xs) * SeqSum([n \in 1..Len(xs) |-> xs[n] * xs[n]]) - SeqSum(xs) * SeqSum(xs)

\* The least t in lo+1..hi with t**3 >= c, when lo**3 < c <= hi**3.
RECURSIVE CbrtCeilIn(_, _, _)
CbrtCeilIn(c, lo, hi) ==
  IF hi - lo <= 1 THEN hi
  ELSE LET mid == (lo + hi) \div 2
       IN IF mid * mid * mid >= c THEN CbrtCeilIn(c, lo, mid)
          ELSE CbrtCeilIn(c, mid, hi)

\* The least t with t**3 >= c; 1290 is the largest number the cube of which
\* is a 32-bit integer.
CbrtCeil(c) == IF c <= 0 THEN 0 ELSE CbrtCeilIn(c, 0, 1290)

\* Line 371: width = 3.5*np.std(x)/x.size**(1/3) is 0 exactly when the
\* samples are all equal.
ScottWidthIsZero(xs) == SumSquaredDev(xs) = 0

\* ceil((x.max() - x.min())/width) for the width of line 371, a positive
\* width: the least m with m*width >= max - min, that is with
\* (49 * m**2 * N**2 var)**3 >= 64 * (max - min)**6 * N**8.
RECURSIVE LeastCount(_, _, _)
LeastCount(m, s2, t) ==
  IF 49 * m * m * s2 >= t THEN m ELSE LeastCount(m + 1, s2, t)

ScottBinCount(xs) ==
  LET r == SeqMax(xs) - SeqMin(xs)
      n == Len(xs)
      n4 == n * n * n * n
  IN LeastCount(0, SumSquaredDev(xs), CbrtCeil(64 * r * r * r * r * r * r * n4 * n4))

\* Line 372: len(np.arange(x.min(), x.max()+width, width)) for a positive
\* width: one edge more than ceil((max - min)/width).
ArangeLen(xs) == ScottBinCount(xs) + 1

\* int(a) for an array a of len values the first of which is first: the
\* empty set is TypeError (only an array of one element is converted).
IntOfArray(len, first) == IF len = 1 THEN {first} ELSE {}

\* Line 376: the count used when int(bins[bin_index]) raised TypeError.
FallbackBins == 50

\* Lines 370-377: the number of bins of the histogram of xs for the entry of
\* bins, None or a number, when np.arange did not raise.
HistBins(entry, xs) ==
  IF entry = {}
  THEN LET converted == IntOfArray(ArangeLen(xs), SeqMin(xs))
       IN IF converted = {} THEN FallbackBins
          ELSE CHOOSE b \in converted : TRUE
  ELSE CHOOSE b \in entry : TRUE

\* The bin (from 1) np.histogram2d puts v in for the edges
\* np.linspace(lo, hi, b + 1): the last bin holds its right edge.
BinOf(v, lo, hi, b) ==
  IF hi = lo THEN b
  ELSE LET k == ((v - lo) * b) \div (hi - lo) + 1
       IN IF k > b THEN b ELSE k

\* Lines 417-423: H of np.histogram2d, as the number of cells holding every
\* count (count -> number of cells).
Histogram2d(xs, ys, mx, my) ==
  LET cell(n) == << BinOf(xs[n], mx.min, mx.max, mx.bins),
                    BinOf(ys[n], my.min, my.max, my.bins) >>
      occupied == {cell(n) : n \in 1..Len(xs)}
      count(c) == Cardinality({n \in 1..Len(xs) : cell(n) = c})
      empty == mx.bins * my.bins - Cardinality(occupied)
      counts == {count(c) : c \in occupied} \cup (IF empty > 0 THEN {0} ELSE {})
  IN [v \in counts |->
       Cardinality({c \in occupied : count(c) = v}) + (IF v = 0 THEN empty ELSE 0)]

\* Line 427: H = (H - H.min()) / (H.max() - H.min()), in units of
\* 1/(H.max() - H.min()): the numerators.
Normalise(h) ==
  LET lo == SetMin(DOMAIN h)
  IN [v \in {c - lo : c \in DOMAIN h} |-> h[v + lo]]

\* The runs <<value, cells>> of the flattened grid sorted in increasing order.
RECURSIVE SortAscending(_)
SortAscending(h) ==
  IF DOMAIN h = {} THEN <<>>
  ELSE LET m == SetMin(DOMAIN h)
       IN << <<m, h[m]>> >> \o SortAscending([v \in DOMAIN h \ {m} |-> h[v]])

\* Lines 429-431: Hflat[np.argsort(Hflat)[::-1]], the flattened grid in
\* decreasing order, as runs <<value, cells>>.
RECURSIVE SortDescending(_)
SortDescending(h) ==
  IF DOMAIN h = {} THEN <<>>
  ELSE LET m == SetMax(DOMAIN h)
       IN << <<m, h[m]>> >> \o SortDescending([v \in DOMAIN h \ {m} |-> h[v]])

\* Line 432: np.cumsum(Hflat) at the end of run j.
RECURSIVE CumSum(_, _)
CumSum(runs, j) ==
  IF j = 0 THEN 0 ELSE CumSum(runs, j - 1) + runs[j][1] * runs[j][2]

\* Line 434: levels = 1 - exp(-0.5 * [1, 2, 3]**2), in millionths.
Levels == <<393469, 864664, 988891>>

\* Lines 435-440: V[i] = Hflat[sm <= v0][-1], the value of the last cell the
\* cumulative fraction of which is at most the level, or Hflat[0] when
\* there is no such cell.
Threshold(runs, level) ==
  LET total == CumSum(runs, Len(runs))
      hits == {j \in 1..Len(runs) :
                 (CumSum(runs, j - 1) + runs[j][1]) * 1000000 <= Levels[level] * total}
  IN IF hits = {} THEN runs[1][1] ELSE runs[SetMax(hits)][1]

\* Lines 427-442 for the grid h: the thresholds V and the boundaries.  A grid
\* of equal counts is 0/0 everywhere: the thresholds are nan.
Contour(h) ==
  LET distinct == Cardinality(DOMAIN h) >= 2
      hmax == SetMax(DOMAIN h) - SetMin(DOMAIN h)
      runs == SortDescending(Normalise(h))
      V == [l \in 1..Len(Levels) |-> IF distinct THEN Threshold(runs, l) ELSE 0]
  IN [distinct |-> distinct, hmax |-> hmax, V |-> V,
      bounds |-> IF distinct THEN {hmax} \cup {V[l] : l \in 1..Len(Levels)} ELSE {}]

\* Lines 313-362: the call, the labels, the selected samples and labels, the
\* grid of axes, the list of bins.
CorrCall ==
  /\ UNCHANGED notCorr
  /\ r_pc = "idle"
  /\ \E model \in BOOLEAN, source \in BOOLEAN, flt \in PlotFilters,
        selection \in Selections, arg \in BinsArgs :
       LET names == DisplayNames(labels, model, source, TRUE)
           first == FirstStep(Len(chain), selection)
           last == LastStep(Len(chain), selection)
           selected == FilterLabels(flt, names)
           k == Len(selected)
       IN /\ r_names' = names
          /\ r_filter' = selected
          /\ r_selected' = FilterParams(flt, names)
          /\ r_data' = [c \in 1..Len(labels) |-> Column(chain, first, last, c)]
          /\ IF k = 0
             THEN \* line 59 of _make_axes_grid divides by no_variables
                  /\ r_pc' = "done"
                  /\ r_outcome' = "raised"
                  /\ r_error' = "grid"
                  /\ r_axes' = {}
                  /\ r_bins' = <<>>
                  /\ r_supplied' = <<>>
             ELSE /\ r_pc' = "diag"
                  /\ r_outcome' = r_outcome
                  /\ r_error' = r_error
                  /\ r_axes' = {c \in Cells(k) : CellCreated(k, c[1], c[2])}
                  /\ r_bins' = BinsList(arg, selected)
                  /\ r_supplied' = BinsList(arg, selected)
  /\ UNCHANGED <<r_i, r_hists, metadata, r_contours>>

\* Lines 363-404: the diagonal region of one selected label.
CorrDiag ==
  /\ UNCHANGED notCorr
  /\ r_pc = "diag"
  /\ LET bin_index == r_i + 1
         val == r_filter[bin_index]
         i == ListIndex(r_names, val)
         x == r_data[i]
     IN IF bin_index > Len(r_bins)
        THEN \* line 370: bins[bin_index] of a list that is too short
             /\ r_pc' = "done"
             /\ r_outcome' = "raised"
             /\ r_error' = "bins"
             /\ UNCHANGED <<r_bins, r_i, r_hists, metadata>>
        ELSE IF r_bins[bin_index] = {} /\ ScottWidthIsZero(x)
        THEN \* line 372: np.arange with a step of 0, outside the try
             /\ r_pc' = "done"
             /\ r_outcome' = "raised"
             /\ r_error' = "arange"
             /\ UNCHANGED <<r_bins, r_i, r_hists, metadata>>
        ELSE LET b == HistBins(r_bins[bin_index], x)
             IN /\ r_bins' = [r_bins EXCEPT ![bin_index] = {b}]
                /\ r_hists' = Append(r_hists,
                     [label |-> val, at |-> <<r_i, r_i>>, column |-> i, bins |-> b,
                      supplied |-> r_supplied[bin_index]])
                /\ metadata' = [l \in DOMAIN metadata \cup {val} |->
                     IF l = val THEN [bins |-> b, min |-> SeqMin(x), max |-> SeqMax(x)]
                     ELSE metadata[l]]
                /\ IF bin_index = Len(r_filter)
                   THEN r_pc' = "pair" /\ r_i' = 0
                   ELSE r_pc' = "diag" /\ r_i' = r_i + 1
                /\ UNCHANGED <<r_outcome, r_error>>
  /\ UNCHANGED <<r_names, r_filter, r_selected, r_data, r_supplied, r_axes,
                 r_contours>>

\* Lines 406-446: the off-diagonal region of one pair of selected labels.
CorrPair ==
  /\ UNCHANGED notCorr
  /\ r_pc = "pair"
  /\ r_i < Len(TrilIndices(Len(r_filter)))
  /\ LET at == TrilIndices(Len(r_filter))[r_i + 1]
         x_name == r_filter[at[2] + 1]
         y_name == r_filter[at[1] + 1]
         j == ListIndex(r_names, x_name)
         i == ListIndex(r_names, y_name)
         H == Histogram2d(r_data[j], r_data[i], metadata[x_name], metadata[y_name])
         drawn == Contour(H)
         raises == Cardinality(drawn.bounds) < 2
     IN /\ r_contours' = Append(r_contours,
             [x_label |-> x_name, y_label |-> y_name, at |-> at,
              x_column |-> j, y_column |-> i, H |-> H,
              distinct |-> drawn.distinct, hmax |-> drawn.hmax, V |-> drawn.V,
              bounds |-> drawn.bounds, filled |-> ~raises])
        /\ IF raises
           THEN \* lines 443-445: BoundaryNorm and contourf need two boundaries
                /\ r_pc' = "done"
                /\ r_outcome' = "raised"
                /\ r_error' = "contourf"
                /\ r_i' = r_i
           ELSE /\ r_i' = r_i + 1
                /\ UNCHANGED <<r_pc, r_outcome, r_error>>
  /\ UNCHANGED <<r_names, r_filter, r_selected, r_data, r_bins, r_supplied,
                 r_axes, r_hists, metadata>>

\* Lines 447-453: the colorbar (None when there is no contour) and the return.
CorrReturn ==
  /\ UNCHANGED notCorr
  /\ r_pc = "pair"
  /\ r_i = Len(TrilIndices(Len(r_filter)))
  /\ r_pc' = "done"
  /\ r_outcome' = "returned"
  /\ UNCHANGED <<r_error, r_names, r_filter, r_selected, r_data, r_bins,
                 r_supplied, r_axes, r_i, r_hists, metadata, r_contours>>

CorrIdle ==
  /\ r_outcome = "none"
  /\ r_error = "none"
  /\ r_names = <<>>
  /\ r_filter = <<>>
  /\ r_selected = <<>>
  /\ r_data = <<>>
  /\ r_bins = <<>>
  /\ r_supplied = <<>>
  /\ r_axes = {}
  /\ r_i = 0
  /\ r_hists = <<>>
  /\ metadata = <<>>
  /\ r_contours = <<>>

CorrInit == r_pc = "idle" /\ CorrIdle

CorrParked == r_pc = "parked" /\ CorrIdle

\* ---------------------------------------------------------- specifications
Parked(part) ==
  /\ part = "grid" \/ GridParked
  /\ part = "chi" \/ ChiParked
  /\ part \in {"walk", "corr"} \/ StoreParked
  /\ part = "walk" \/ WalkParked
  /\ part = "corr" \/ CorrParked

InitGrid == GridInit /\ Parked("grid")


NextGrid == GridCall \/ GridCell \/ GridFinish

SpecGrid == InitGrid /\ [][NextGrid]_vars

InitChi == ChiInit /\ Parked("chi")

NextChi ==
  \/ ChiCall \/ ChiInitialFit \/ ChiSnapshot
  \/ ChiDiagBegin \/ ChiDiagPoint \/ ChiDiagEnd
  \/ ChiPairBegin \/ ChiPairPoint \/ ChiPairEnd
  \/ ChiReturn

SpecChi == InitChi /\ [][NextChi]_vars

InitWalk == StoreInit /\ WalkInit /\ Parked("walk")

NextWalk == WalkCall \/ WalkSubplots \/ WalkTrace \/ WalkReturn

SpecWalk == InitWalk /\ [][NextWalk]_vars

InitCorr == StoreInit /\ CorrInit /\ Parked("corr")

NextCorr == CorrCall \/ CorrDiag \/ CorrPair \/ CorrReturn

SpecCorr == InitCorr /\ [][NextCorr]_vars

\* ------------------------------------------------------------- properties
\* C1 (as amended): when generateChisquareMap has returned, every parameter
\* of fitter.lmpars has the value of the snapshot orig_params of line 165,
\* which is taken after the fit the call itself runs when the fitter had no
\* fit result; whatever the refits of the sweeps produced.
C1_RestoredToSnapshot ==
  outcome = "returned" => Values(heap[lmpars]) = Values(baseline)

\* C1 witness: a call has returned whose last refit, on a pair grid, left
\* values other than those of the snapshot.
C1_Witness ==
  /\ outcome = "returned"
  /\ last_fit.kind = "pair"
  /\ Values(last_fit.output) # Values(baseline)
  /\ Values(last_fit.input) # Values(baseline)

\* C1 (as stated): when generateChisquareMap has returned, every parameter
\* of fitter.lmpars has the value it had when the call was made.
C1_RestoredToEntry ==
  outcome = "returned" => Values(heap[lmpars]) = entry_values

C3_SweepWidthPositive ==
  \A p \in DOMAIN ranges : ranges[p].right_val > ranges[p].left_val

\* C7: the boundaries given to the contour renderer are (-t3, -t2, -t1, 0)
\* with t1, t2, t3 the chi-square thresholds of 1, 2, 3 sigma for two degrees
\* of freedom.
C7_BoundsTwoDof ==
  bounds # <<>> =>
    bounds = << -Chi2Quantile(2, 3), -Chi2Quantile(2, 2), -Chi2Quantile(2, 1), 0 >>

C10_LlhOptionMatchesMethod ==
  last_fit.kind \in {"diag", "pair"} =>
    (last_fit.llh <=> StartsWith(last_fit.method, <<"l", "l", "h">>))

\* C4: in generateCorrelationPlot, a parameter without a supplied bin count
\* the Scott's-rule width of which is 0 (constant samples) gets its histogram
\* drawn with the fallback of 50 bins, and np.arange raises nothing that
\* reaches the caller.
C4_ZeroWidthFallsBack ==
  /\ r_error # "arange"
  /\ \A k \in 1..Len(r_hists) :
       (r_hists[k].supplied = {} /\ ScottWidthIsZero(r_data[r_hists[k].column]))
         => r_hists[k].bins = FallbackBins

\* C5: in generateCorrelationPlot, a parameter without a supplied bin count
\* the Scott's-rule width of which is positive (at least two bin edges) has
\* its histogram drawn, and its metadata stored, with the number of bins
\* derived from that width over [min, max], not with the fallback 50.
C5_ScottCountUsed ==
  (r_pc \in {"diag", "pair"} /\ Len(r_hists) > 0) =>
    LET h == r_hists[Len(r_hists)]
        x == r_data[h.column]
    IN (h.supplied = {} /\ ~ScottWidthIsZero(x) /\ ArangeLen(x) >= 2) =>
         /\ h.bins = ScottBinCount(x)
         /\ metadata[h.label].bins = ScottBinCount(x)

\* C6: for every 2D histogram of generateCorrelationPlot with at least two
\* distinct cell counts, the thresholds of the 1, 2 and 3 sigma levels are
\* non-increasing in that order and none exceeds the maximum of the
\* normalised grid.
C6_ThresholdsNonIncreasing ==
  \A k \in 1..Len(r_contours) :
    LET c == r_contours[k]
    IN c.distinct =>
         /\ c.V[1] >= c.V[2]
         /\ c.V[2] >= c.V[3]
         /\ \A l \in 1..Len(Levels) : c.V[l] <= c.hmax

\* A contour has been drawn for a grid of three distinct counts, with a
\* 1 sigma threshold above the 2 sigma threshold.
C6_Witness ==
  \E k \in 1..Len(r_contours) :
    /\ r_contours[k].distinct
    /\ r_contours[k].filled
    /\ Cardinality(DOMAIN r_contours[k].H) >= 3
    /\ r_contours[k].V[1] > r_contours[k].V[2]

\* C8: for a selection of k >= 1 parameters, generateWalkPlot returns
\* normally with k trace regions, one per selected parameter, each with one
\* trajectory per walker over the selected steps and one median line; also
\* for k = 1.
C8_WalkReturnsRegions ==
  (w_pc = "done" /\ Len(w_filter) >= 1) =>
    /\ w_outcome = "returned"
    /\ Len(w_regions) = Len(w_filter)
    /\ \A k \in 1..Len(w_regions) :
         /\ w_regions[k].label = w_filter[k]
         /\ w_regions[k].trajectories = NumWalkers
         /\ w_regions[k].steps = <<w_first, w_last>>
         /\ w_regions[k].medians = 1

\* C11: in generateCorrelationPlot, the samples drawn in the diagonal region
\* (i, i), and used as the x data of the regions of column i and as the y data
\* of the regions of row i, are the chain column of the stored parameter the
\* entry i of the selection was taken from; also when two stored parameters
\* have the same display label or one parameter is selected twice.
C11_RegionShowsOwnColumn ==
  /\ \A k \in 1..Len(r_hists) :
       r_data[r_hists[k].column] = r_data[r_selected[r_hists[k].at[1] + 1]]
  /\ \A k \in 1..Len(r_contours) :
       /\ r_data[r_contours[k].x_column] = r_data[r_selected[r_contours[k].at[2] + 1]]
       /\ r_data[r_contours[k].y_column] = r_data[r_selected[r_contours[k].at[1] + 1]]
====
